---- MODULE Spec2Model ----
(***************************************************************************)
(* Authorization and task-lifecycle model of remote-design-flow.           *)
(*                                                                         *)
(* The backend is a Postgres database with row-level security (RLS)        *)
(* policies and two SECURITY DEFINER procedures; the clients are the       *)
(* admin TaskManager and the DesignerDashboard React components.           *)
(* Each backend request is one action; its guard is the policy predicate   *)
(* of the migrations, evaluated with SQL's three-valued logic.             *)
(***************************************************************************)
EXTENDS Naturals, Sequences, FiniteSets

\* ------------------------------------------------------------------ bounds
\* Cap on the rows of public.notifications in the role-management runs.
MaxNotifs == 2
\* Cap on the objects stored in the storage runs.
MaxObjects == 2

\* ------------------------------------------------------------ value domains
\* SQL NULL, also the value of a missing row's column.
NULL == "NULL"
\* The authenticated principals (rows of auth.users).
Users == {"u1", "u2", "u3"}
\* A uuid that is no row of auth.users.
Ghost == "x9"
\* The roles admitted by the valid_roles constraint.
ValidRoles == {"admin", "designer"}
\* A role string outside the enumerated set.
Owner == "owner"

VARIABLES
  profiles,       \* public.profiles: user id -> stored role, NULL when no row
  tasks,          \* public.tasks: task id -> row, for the ids that exist
  notifications,  \* public.notifications: rows in insertion order
  designs,        \* public.designs: design id -> row, for the ids that exist
  objects,        \* storage.objects: set of <<bucket, path>>
  last,           \* the last backend request and its outcome
  adminTasks,     \* TaskManager: useState tasks (the cached list)
  adminToast,     \* TaskManager: the last toast shown
  desTasks,       \* DesignerDashboard: useState tasks (the cached list)
  completedFile,  \* DesignerDashboard: useState completedFile (TRUE = a File)
  uploading,      \* DesignerDashboard: useState uploading
  desToast,       \* DesignerDashboard: the last toast shown
  dpc,            \* DesignerDashboard: position inside handleCompleteTask
  dtask,          \* DesignerDashboard: the task handleCompleteTask runs on
  run,            \* the last handler that ran to its end in one step, and
                  \* the outcome of each backend call it made
  authUser,       \* supabase.auth: the user of the client's session, or NULL
  session,        \* Index: useState session and user (set together), as
                  \* the user's id, or NULL
  userRole,       \* Index: useState userRole
  loading,        \* Index: useState loading
  fetching,       \* Index: the users whose role fetch is awaited
  gpc,            \* Index: whether getSession() is still pending
  indexToast      \* Index: the last toast shown

dbVars == <<profiles, tasks, notifications, designs, objects>>
adminVars == <<adminTasks, adminToast>>
desVars == <<desTasks, completedFile, uploading, desToast, dpc, dtask>>
dashVars == <<adminTasks, adminToast, desTasks, completedFile, uploading, desToast, dpc,
              dtask, run>>
indexVars == <<authUser, session, userRole, loading, fetching, gpc, indexToast>>
uiVars == <<dashVars, indexVars>>
vars == <<profiles, tasks, notifications, designs, objects, last,
          adminTasks, adminToast, desTasks, completedFile, uploading, desToast, dpc, dtask,
          run, authUser, session, userRole, loading, fetching, gpc, indexToast>>

\* ------------------------------------------------- SQL three-valued logic
\* a = b
SqlEq(a, b) == IF a = NULL \/ b = NULL THEN NULL ELSE IF a = b THEN "true" ELSE "false"
\* a != b
SqlNe(a, b) == IF a = NULL \/ b = NULL THEN NULL ELSE IF a = b THEN "false" ELSE "true"
\* a IN S
SqlIn(a, S) == IF a = NULL THEN NULL ELSE IF a \in S THEN "true" ELSE "false"
\* a NOT IN S
SqlNotIn(a, S) == IF a = NULL THEN NULL ELSE IF a \in S THEN "false" ELSE "true"
\* x OR y
SqlOr(x, y) ==
  IF x = "true" \/ y = "true" THEN "true"
  ELSE IF x = NULL \/ y = NULL THEN NULL ELSE "false"
\* x AND y
SqlAnd(x, y) ==
  IF x = "false" \/ y = "false" THEN "false"
  ELSE IF x = NULL \/ y = NULL THEN NULL ELSE "true"
\* A policy expression, an IF condition or a WHERE clause passes only when true.
Passes(x) == x = "true"
\* A CHECK constraint is violated only when false.
CheckHolds(x) == x # "false"

\* The record of a backend request: the operation, auth.uid(), the row
\* addressed, the value sent and the outcome.
Req(op, caller, id, val, res) ==
  [op |-> op, caller |-> caller, id |-> id, val |-> val, res |-> res]

\* ------------------------------------------------------------- profiles
\* SELECT role FROM public.profiles WHERE id = user_id
get_user_role(user_id) == IF user_id \in Users THEN profiles[user_id] ELSE NULL

\* A CHECK constraint that admits every role.
valid_roles_Any(role) == TRUE

\* CHECK (role IN ('admin', 'designer'))
valid_roles(role) == CheckHolds(SqlIn(role, ValidRoles))

\* The role column is not nullable (the Profile entity of the data model:
\* role is not one of its optional attributes).
ProfilesRoleNotNull(role) == role # NULL

\* "Allow users to view their own profile": USING (auth.uid() = id)
ProfilesSelectOwn(uid, id) == Passes(SqlEq(uid, id))

\* "Allow admins to view all profiles": USING (auth.uid() = id OR
\* (SELECT role FROM profiles WHERE id = auth.uid()) = 'admin')
ProfilesSelectAdmin(uid, id) ==
  Passes(SqlOr(SqlEq(uid, id), SqlEq(get_user_role(uid), "admin")))

\* The subquery of "Allow admins to view all profiles" reads profiles as the
\* caller, so the SELECT policies of profiles are expanded inside it again:
\* Postgres stops with 'infinite recursion detected in policy for relation
\* "profiles"' on every statement these policies apply to, that is every
\* SELECT and every UPDATE ... WHERE of a client (get_user_role and
\* update_user_role are SECURITY DEFINER and read the table directly).
ProfilesSelectPolicyRecursive == TRUE

\* "Allow users to insert their own profile": WITH CHECK (auth.uid() = id)
ProfilesInsertCheck(uid, id) == Passes(SqlEq(uid, id))

\* "Allow users to update their own profile data": USING (auth.uid() = id)
ProfilesUpdateUsing(uid, id) == Passes(SqlEq(uid, id))

\* The WITH CHECK without its role clause (the policy before the escalation fix).
ProfilesUpdateCheck_NoRoleClause(uid, id, role) == Passes(SqlEq(uid, id))

\* WITH CHECK (auth.uid() = id AND role = (SELECT role FROM profiles WHERE
\* id = auth.uid())): role is the new row's, the subquery reads the table as
\* it stands before the update.
ProfilesUpdateCheck(uid, id, role) ==
  Passes(SqlAnd(SqlEq(uid, id), SqlEq(role, get_user_role(uid))))

\* INSERT INTO profiles (id, role) by principal uid: the policy, then the
\* CHECK constraint, then the primary key.
InsertProfileResult(uid, id, role) ==
  IF ~ProfilesInsertCheck(uid, id) THEN "rls_violation"
  ELSE IF ~ProfilesRoleNotNull(role) THEN "not_null_violation"
  ELSE IF ~valid_roles(role) THEN "check_violation"
  ELSE IF get_user_role(id) # NULL THEN "duplicate_key"
  ELSE "ok"

InsertProfile(uid, id, role) ==
  LET res == InsertProfileResult(uid, id, role) IN
    /\ profiles' = IF res = "ok" THEN [profiles EXCEPT ![id] = role] ELSE profiles
    /\ last' = Req("profiles_insert", uid, id, role, res)
    /\ UNCHANGED <<tasks, notifications, designs, objects>>
    /\ UNCHANGED uiVars

\* SELECT * FROM profiles WHERE id = id, by principal uid: the SELECT
\* policies are permissive, a row is shown when either passes.
ProfileSelectResult(uid, id) ==
  IF ProfilesSelectPolicyRecursive THEN "policy_recursion"
  ELSE IF get_user_role(id) = NULL THEN "no_rows"
  ELSE IF ~(ProfilesSelectOwn(uid, id) \/ ProfilesSelectAdmin(uid, id)) THEN "no_rows"
  ELSE "ok"

ProfileSelect(uid, id) ==
  LET res == ProfileSelectResult(uid, id) IN
    /\ last' = Req("profiles_select", uid, id, NULL, res)
    /\ UNCHANGED <<profiles, tasks, notifications, designs, objects>>
    /\ UNCHANGED uiVars

\* The UPDATE under the policy this migration replaces, "Users can update
\* their own profile": USING (auth.uid() = id) and nothing else.
UpdateProfileResult_OwnRow(uid, id, role) ==
  IF get_user_role(id) = NULL \/ ~ProfilesUpdateUsing(uid, id) THEN "no_rows"
  ELSE IF ~valid_roles(role) THEN "check_violation"
  ELSE "ok"

\* UPDATE profiles SET role = role WHERE id = id, by principal uid. The WHERE
\* clause reads the table, so the SELECT policies apply as well. A row the
\* USING clause hides is not updated and no error is raised.
UpdateProfileResult(uid, id, role) ==
  IF ProfilesSelectPolicyRecursive THEN "policy_recursion"
  ELSE IF get_user_role(id) = NULL \/ ~ProfilesUpdateUsing(uid, id) THEN "no_rows"
  ELSE IF ~ProfilesUpdateCheck(uid, id, role) THEN "rls_violation"
  ELSE IF ~valid_roles(role) THEN "check_violation"
  ELSE "ok"

UpdateProfile(uid, id, role) ==
  LET res == UpdateProfileResult(uid, id, role) IN
    /\ profiles' = IF res = "ok" THEN [profiles EXCEPT ![id] = role] ELSE profiles
    /\ last' = Req("profiles_update", uid, id, role, res)
    /\ UNCHANGED <<tasks, notifications, designs, objects>>
    /\ UNCHANGED uiVars

\* -------------------------------------------------------- notifications
\* A row of public.notifications.
Notification(user_id, title, message, type, task_id) ==
  [user_id |-> user_id, title |-> title, message |-> message, type |-> type,
   task_id |-> task_id, read |-> FALSE]

\* The constraints of the notifications table on a new row: user_id, title,
\* message and type NOT NULL, user_id REFERENCES auth.users, task_id
\* REFERENCES public.tasks (taskIds: the ids of the rows of tasks).
NotificationInsertable(n, taskIds) ==
  /\ n.user_id \in Users
  /\ n.title # NULL /\ n.message # NULL /\ n.type # NULL
  /\ n.task_id = NULL \/ n.task_id \in taskIds

\* 'Your role has been updated to: ' || new_role (NULL when new_role is NULL)
RoleMessage(new_role) == IF new_role = NULL THEN NULL ELSE new_role

\* The audit row update_user_role inserts.
RoleNotification(target_user_id, new_role) ==
  Notification(target_user_id, "Role Updated", RoleMessage(new_role), "info", NULL)

\* ------------------------------------------------------ update_user_role
\* IF current_user_role != 'admin' THEN RAISE EXCEPTION
NotAdmin(uid) == Passes(SqlNe(get_user_role(uid), "admin"))

\* A function body without the validation of new_role.
InvalidRole_Off(new_role) == FALSE

\* IF new_role NOT IN ('admin', 'designer') THEN RAISE EXCEPTION
InvalidRole(new_role) == Passes(SqlNotIn(new_role, ValidRoles))

\* A function body that validates new_role before it checks the caller.
UpdateUserRoleResult_ValidateFirst(uid, target_user_id, new_role) ==
  IF InvalidRole(new_role) THEN "invalid_role"
  ELSE IF NotAdmin(uid) THEN "not_admin"
  ELSE IF get_user_role(target_user_id) # NULL /\ ~valid_roles(new_role)
    THEN "check_violation"
  ELSE IF ~NotificationInsertable(RoleNotification(target_user_id, new_role), DOMAIN tasks)
    THEN "constraint_violation"
  ELSE "ok"

\* The outcome of update_user_role(target_user_id, new_role) called by uid.
\* Any exception aborts the function's transaction.
UpdateUserRoleResult(uid, target_user_id, new_role) ==
  IF NotAdmin(uid) THEN "not_admin"
  ELSE IF InvalidRole(new_role) THEN "invalid_role"
  ELSE IF get_user_role(target_user_id) # NULL /\ ~valid_roles(new_role)
    THEN "check_violation"
  ELSE IF ~NotificationInsertable(RoleNotification(target_user_id, new_role), DOMAIN tasks)
    THEN "constraint_violation"
  ELSE "ok"

\* UPDATE public.profiles SET role = new_role WHERE id = target_user_id
SetRole(target_user_id, new_role) ==
  IF get_user_role(target_user_id) # NULL
  THEN [profiles EXCEPT ![target_user_id] = new_role]
  ELSE profiles

update_user_role(uid, target_user_id, new_role) ==
  LET res == UpdateUserRoleResult(uid, target_user_id, new_role) IN
    /\ Len(notifications) < MaxNotifs
    /\ IF res = "ok"
       THEN /\ profiles' = SetRole(target_user_id, new_role)
            /\ notifications' =
                 Append(notifications, RoleNotification(target_user_id, new_role))
       ELSE UNCHANGED <<profiles, notifications>>
    /\ last' = Req("update_user_role", uid, target_user_id, new_role, res)
    /\ UNCHANGED <<tasks, designs, objects>>
    /\ UNCHANGED uiVars

\* ---------------------------------------------------------------- tasks
TaskIds == {"t1"}
Statuses == {"pending", "in_progress", "completed"}
\* A column an UPDATE does not set.
Keep == "KEEP"

\* A row of public.tasks (the columns the policies and the clients use).
TaskRow(assigned_to, assigned_by, status, reference_image_url, completed_at, completed_design_url) ==
  [assigned_to |-> assigned_to, assigned_by |-> assigned_by, status |-> status,
   reference_image_url |-> reference_image_url,
   completed_at |-> completed_at, completed_design_url |-> completed_design_url]

\* "Admins can manage all tasks": USING (get_user_role(auth.uid()) = 'admin')
TasksAdminPolicy(uid, row) == Passes(SqlEq(get_user_role(uid), "admin"))

\* The designer policy written on assigned_by instead of assigned_to.
TasksDesignerPolicy_AssignedBy(uid, row) ==
  Passes(SqlOr(SqlEq(row.assigned_by, uid), SqlEq(get_user_role(uid), "admin")))

\* The designer policy with an unassigned task open to every principal:
\* USING (assigned_to IS NULL OR assigned_to = auth.uid() OR ... = 'admin')
TasksDesignerPolicy_NullOpen(uid, row) ==
  \/ row.assigned_to = NULL
  \/ Passes(SqlOr(SqlEq(row.assigned_to, uid), SqlEq(get_user_role(uid), "admin")))

\* "Designers can view and update their assigned tasks":
\* USING (assigned_to = auth.uid() OR get_user_role(auth.uid()) = 'admin')
TasksDesignerPolicy(uid, row) ==
  Passes(SqlOr(SqlEq(row.assigned_to, uid), SqlEq(get_user_role(uid), "admin")))

\* Both policies are permissive and FOR ALL: a row passes when either does.
\* They have no WITH CHECK, so USING is also applied to new rows.
TasksPolicy(uid, row) == TasksAdminPolicy(uid, row) \/ TasksDesignerPolicy(uid, row)

\* The constraints of the tasks table on a row: assigned_by NOT NULL, both
\* user columns REFERENCES auth.users, status NOT NULL.
TaskRowValid(row) ==
  /\ row.assigned_by \in Users
  /\ row.assigned_to = NULL \/ row.assigned_to \in Users
  /\ row.status # NULL

\* The columns an UPDATE sets (Keep: the column is not in the SET list).
Patch(status, assigned_to, completed_at, completed_design_url) ==
  [status |-> status, assigned_to |-> assigned_to, completed_at |-> completed_at,
   completed_design_url |-> completed_design_url]

\* The row an UPDATE ... SET patch produces from row.
ApplyPatch(row, patch) ==
  [c \in DOMAIN row |-> IF c \in DOMAIN patch /\ patch[c] # Keep THEN patch[c] ELSE row[c]]

\* INSERT INTO tasks by principal uid.
TaskInsertResult(uid, id, row) ==
  IF ~TasksPolicy(uid, row) THEN "rls_violation"
  ELSE IF ~TaskRowValid(row) THEN "constraint_violation"
  ELSE IF id \in DOMAIN tasks THEN "duplicate_key"
  ELSE "ok"

\* An UPDATE under policies with WITH CHECK (true): USING is applied to the
\* stored row only, not to the row the update produces.
TaskUpdateResult_UsingOnly(uid, id, patch) ==
  IF id \notin DOMAIN tasks THEN "no_rows"
  ELSE IF ~TasksPolicy(uid, tasks[id]) THEN "no_rows"
  ELSE IF ~TaskRowValid(ApplyPatch(tasks[id], patch)) THEN "constraint_violation"
  ELSE "ok"

\* An UPDATE behind a sequential gate: a trigger that refuses to move a
\* pending row to completed.
TaskUpdateResult_Gated(uid, id, patch) ==
  IF id \notin DOMAIN tasks THEN "no_rows"
  ELSE IF ~TasksPolicy(uid, tasks[id]) THEN "no_rows"
  ELSE IF ~TasksPolicy(uid, ApplyPatch(tasks[id], patch)) THEN "rls_violation"
  ELSE IF ~TaskRowValid(ApplyPatch(tasks[id], patch)) THEN "constraint_violation"
  ELSE IF tasks[id].status = "pending" /\ patch.status = "completed"
    THEN "constraint_violation"
  ELSE "ok"

\* UPDATE tasks SET patch WHERE id = id, by principal uid. A row USING hides
\* is not updated and no error is raised.
TaskUpdateResult(uid, id, patch) ==
  IF id \notin DOMAIN tasks THEN "no_rows"
  ELSE IF ~TasksPolicy(uid, tasks[id]) THEN "no_rows"
  ELSE IF ~TasksPolicy(uid, ApplyPatch(tasks[id], patch)) THEN "rls_violation"
  ELSE IF ~TaskRowValid(ApplyPatch(tasks[id], patch)) THEN "constraint_violation"
  ELSE "ok"

\* DELETE FROM tasks WHERE id = id, by principal uid. notifications.task_id
\* references the row without ON DELETE CASCADE.
TaskDeleteResult(uid, id) ==
  IF id \notin DOMAIN tasks THEN "no_rows"
  ELSE IF ~TasksPolicy(uid, tasks[id]) THEN "no_rows"
  ELSE IF \E i \in 1..Len(notifications) : notifications[i].task_id = id
    THEN "constraint_violation"
  ELSE "ok"

\* SELECT * FROM tasks WHERE id = id, by principal uid: the row when the
\* policies show it.
TaskSelectResult(uid, id) ==
  IF id \notin DOMAIN tasks THEN "no_rows"
  ELSE IF ~TasksPolicy(uid, tasks[id]) THEN "no_rows"
  ELSE "ok"

\* The tables after the statements.
TasksAfterInsert(id, row, res) ==
  IF res = "ok" THEN [t \in DOMAIN tasks \cup {id} |-> IF t = id THEN row ELSE tasks[t]]
  ELSE tasks
TasksAfterUpdate(id, patch, res) ==
  IF res = "ok" THEN [tasks EXCEPT ![id] = ApplyPatch(tasks[id], patch)] ELSE tasks
TasksAfterDelete(id, res) ==
  IF res = "ok" THEN [t \in DOMAIN tasks \ {id} |-> tasks[t]] ELSE tasks

TaskInsert(uid, id, row) ==
  LET res == TaskInsertResult(uid, id, row) IN
    /\ tasks' = TasksAfterInsert(id, row, res)
    /\ last' = Req("tasks_insert", uid, id, row, res)
    /\ UNCHANGED <<profiles, notifications, designs, objects>>
    /\ UNCHANGED uiVars

TaskSelect(uid, id) ==
  LET res == TaskSelectResult(uid, id) IN
    /\ last' = Req("tasks_select", uid, id, NULL, res)
    /\ UNCHANGED <<profiles, tasks, notifications, designs, objects>>
    /\ UNCHANGED uiVars

TaskUpdate(uid, id, patch) ==
  LET res == TaskUpdateResult(uid, id, patch) IN
    /\ tasks' = TasksAfterUpdate(id, patch, res)
    /\ last' = Req("tasks_update", uid, id, patch, res)
    /\ UNCHANGED <<profiles, notifications, designs, objects>>
    /\ UNCHANGED uiVars

TaskDelete(uid, id) ==
  LET res == TaskDeleteResult(uid, id) IN
    /\ tasks' = TasksAfterDelete(id, res)
    /\ last' = Req("tasks_delete", uid, id, NULL, res)
    /\ UNCHANGED <<profiles, notifications, designs, objects>>
    /\ UNCHANGED uiVars

\* -------------------------------------------------------------- designs
DesignIds == {"g1", "g2"}

\* An insert policy as open as the public SELECT policy: WITH CHECK (true).
DesignsInsertCheck_Public(uid, user_id) == TRUE

\* "Allow authenticated users to insert their own designs":
\* WITH CHECK (auth.uid() = user_id)
DesignsInsertCheck(uid, user_id) == Passes(SqlEq(uid, user_id))

\* "Users can update their own designs": USING (auth.uid() = user_id)
DesignsUpdateUsing(uid, user_id) == Passes(SqlEq(uid, user_id))
\* An update policy that accepts every new row: WITH CHECK (true).
DesignsUpdateCheck_Open(uid, user_id) == TRUE

\* WITH CHECK (auth.uid() = user_id), on the new row
DesignsUpdateCheck(uid, user_id) == Passes(SqlEq(uid, user_id))
\* "Users can delete their own designs": USING (auth.uid() = user_id)
DesignsDeleteUsing(uid, user_id) == Passes(SqlEq(uid, user_id))

DesignInsertResult(uid, id, user_id) ==
  IF ~DesignsInsertCheck(uid, user_id) THEN "rls_violation"
  ELSE IF id \in DOMAIN designs THEN "duplicate_key"
  ELSE "ok"

DesignUpdateResult(uid, id, user_id) ==
  IF id \notin DOMAIN designs THEN "no_rows"
  ELSE IF ~DesignsUpdateUsing(uid, designs[id].user_id) THEN "no_rows"
  ELSE IF ~DesignsUpdateCheck(uid, user_id) THEN "rls_violation"
  ELSE "ok"

DesignDeleteResult(uid, id) ==
  IF id \notin DOMAIN designs THEN "no_rows"
  ELSE IF ~DesignsDeleteUsing(uid, designs[id].user_id) THEN "no_rows"
  ELSE "ok"

DesignInsert(uid, id, user_id) ==
  LET res == DesignInsertResult(uid, id, user_id) IN
    /\ designs' = IF res = "ok"
                  THEN [d \in DOMAIN designs \cup {id} |->
                          IF d = id THEN [user_id |-> user_id] ELSE designs[d]]
                  ELSE designs
    /\ last' = Req("designs_insert", uid, id, user_id, res)
    /\ UNCHANGED <<profiles, tasks, notifications, objects>>
    /\ UNCHANGED uiVars

DesignUpdate(uid, id, user_id) ==
  LET res == DesignUpdateResult(uid, id, user_id) IN
    /\ designs' = IF res = "ok"
                  THEN [designs EXCEPT ![id] = [user_id |-> user_id]]
                  ELSE designs
    /\ last' = Req("designs_update", uid, id, user_id, res)
    /\ UNCHANGED <<profiles, tasks, notifications, objects>>
    /\ UNCHANGED uiVars

DesignDelete(uid, id) ==
  LET res == DesignDeleteResult(uid, id) IN
    /\ designs' = IF res = "ok" THEN [d \in DOMAIN designs \ {id} |-> designs[d]]
                  ELSE designs
    /\ last' = Req("designs_delete", uid, id, NULL, res)
    /\ UNCHANGED <<profiles, tasks, notifications, objects>>
    /\ UNCHANGED uiVars

\* ------------------------------------------------------- storage.objects
\* The bucket of the application and a bucket no policy names.
DesignsBucket == "designs"
OtherBucket == "other"

\* (storage.foldername(name))[1]: the first folder of an object's path, NULL
\* for a path that is a bare file name.
FirstFolder(name) == IF Len(name) > 1 THEN name[1] ELSE NULL

\* "Allow authenticated users to upload their own design files": WITH CHECK
\* (bucket_id = 'designs' AND auth.uid()::text = (storage.foldername(name))[1])
StorageInsertOwnFolder(uid, bucket, name) ==
  Passes(SqlAnd(SqlEq(bucket, DesignsBucket), SqlEq(uid, FirstFolder(name))))

\* "Allow authenticated users to upload reference images":
\* WITH CHECK (bucket_id = 'designs')
StorageInsertReference(uid, bucket, name) == Passes(SqlEq(bucket, DesignsBucket))

\* The INSERT policies are permissive: a new object passes when either does.
StorageInsertPolicy(uid, bucket, name) ==
  StorageInsertOwnFolder(uid, bucket, name) \/ StorageInsertReference(uid, bucket, name)

\* "Allow users to view design files": USING (bucket_id = 'designs')
StorageSelectUsing(uid, bucket, name) == Passes(SqlEq(bucket, DesignsBucket))

\* An update policy on the bucket alone: USING (bucket_id = 'designs').
StorageUpdateUsing_BucketOnly(uid, bucket, name) == Passes(SqlEq(bucket, DesignsBucket))

\* "Allow users to update their own design files": USING
\* (bucket_id = 'designs' AND auth.uid()::text = (storage.foldername(name))[1])
StorageUpdateUsing(uid, bucket, name) ==
  Passes(SqlAnd(SqlEq(bucket, DesignsBucket), SqlEq(uid, FirstFolder(name))))

\* "Allow users to delete their own design files": USING
\* (bucket_id = 'designs' AND auth.uid()::text = (storage.foldername(name))[1])
StorageDeleteUsing(uid, bucket, name) ==
  Passes(SqlAnd(SqlEq(bucket, DesignsBucket), SqlEq(uid, FirstFolder(name))))

\* storage.from(bucket).upload(name, file), by principal uid; an existing
\* name is not overwritten.
StorageUploadResult(uid, bucket, name) ==
  IF ~StorageInsertPolicy(uid, bucket, name) THEN "rls_violation"
  ELSE IF <<bucket, name>> \in objects THEN "duplicate_key"
  ELSE "ok"

StorageDeleteResult(uid, bucket, name) ==
  IF <<bucket, name>> \notin objects \/ ~StorageDeleteUsing(uid, bucket, name)
  THEN "no_rows" ELSE "ok"

\* storage.from(bucket).download(name): SELECT of the object, by principal uid.
StorageSelectResult(uid, bucket, name) ==
  IF <<bucket, name>> \notin objects \/ ~StorageSelectUsing(uid, bucket, name)
  THEN "no_rows" ELSE "ok"

\* storage.from(bucket).update(name, file): UPDATE of the object under the
\* same name, by principal uid. The policy has no WITH CHECK, so USING is
\* applied to the new row, which has the same bucket and name.
StorageUpdateResult(uid, bucket, name) ==
  IF <<bucket, name>> \notin objects \/ ~StorageUpdateUsing(uid, bucket, name)
  THEN "no_rows" ELSE "ok"

StorageSelect(uid, bucket, name) ==
  LET res == StorageSelectResult(uid, bucket, name) IN
    /\ last' = Req("storage_select", uid, <<bucket, name>>, NULL, res)
    /\ UNCHANGED <<profiles, tasks, notifications, designs, objects>>
    /\ UNCHANGED uiVars

StorageUpdate(uid, bucket, name) ==
  LET res == StorageUpdateResult(uid, bucket, name) IN
    /\ last' = Req("storage_update", uid, <<bucket, name>>, NULL, res)
    /\ UNCHANGED <<profiles, tasks, notifications, designs, objects>>
    /\ UNCHANGED uiVars

StorageUpload(uid, bucket, name) ==
  LET res == StorageUploadResult(uid, bucket, name) IN
    /\ Cardinality(objects) < MaxObjects
    /\ objects' = IF res = "ok" THEN objects \cup {<<bucket, name>>} ELSE objects
    /\ last' = Req("storage_insert", uid, <<bucket, name>>, NULL, res)
    /\ UNCHANGED <<profiles, tasks, notifications, designs>>
    /\ UNCHANGED uiVars

StorageDelete(uid, bucket, name) ==
  LET res == StorageDeleteResult(uid, bucket, name) IN
    /\ objects' = IF res = "ok" THEN objects \ {<<bucket, name>>} ELSE objects
    /\ last' = Req("storage_delete", uid, <<bucket, name>>, NULL, res)
    /\ UNCHANGED <<profiles, tasks, notifications, designs>>
    /\ UNCHANGED uiVars

\* ------------------------------------------- policies on notifications
\* "Users can view their own notifications": USING (user_id = auth.uid())
NotificationsSelectUsing(uid, row) == Passes(SqlEq(row.user_id, uid))

\* "Users can update their own notifications": USING (user_id = auth.uid())
NotificationsUpdateUsing(uid, row) == Passes(SqlEq(row.user_id, uid))

\* An update policy that accepts every new row: WITH CHECK (true).
NotificationsUpdateCheck_Open(uid, row) == TRUE

\* The policy has no WITH CHECK, so its USING is also applied to the new row.
NotificationsUpdateCheck(uid, row) == NotificationsUpdateUsing(uid, row)

\* "System can insert notifications": WITH CHECK (true)
NotificationsInsertCheck(uid, row) == TRUE

\* The columns an UPDATE of a notification sets (read: "true", "false" or Keep).
NotificationPatch(user_id, read) == [user_id |-> user_id, read |-> read]

\* The row an UPDATE ... SET patch produces from a notification.
ApplyNotificationPatch(row, patch) ==
  [row EXCEPT !.user_id = IF patch.user_id = Keep THEN @ ELSE patch.user_id,
              !.read = IF patch.read = Keep THEN @ ELSE patch.read = "true"]

\* SELECT * FROM notifications WHERE id = i, by principal uid.
NotificationSelectResult(uid, i) ==
  IF i \notin 1..Len(notifications) THEN "no_rows"
  ELSE IF ~NotificationsSelectUsing(uid, notifications[i]) THEN "no_rows"
  ELSE "ok"

\* UPDATE notifications SET patch WHERE id = i, by principal uid.
NotificationUpdateResult(uid, i, patch) ==
  IF i \notin 1..Len(notifications) THEN "no_rows"
  ELSE IF ~NotificationsUpdateUsing(uid, notifications[i]) THEN "no_rows"
  ELSE IF ~NotificationsUpdateCheck(uid, ApplyNotificationPatch(notifications[i], patch))
    THEN "rls_violation"
  ELSE IF ~NotificationInsertable(ApplyNotificationPatch(notifications[i], patch), DOMAIN tasks)
    THEN "constraint_violation"
  ELSE "ok"

\* INSERT INTO notifications VALUES n, by principal uid.
NotificationInsertResult(uid, n) ==
  IF ~NotificationsInsertCheck(uid, n) THEN "rls_violation"
  ELSE IF ~NotificationInsertable(n, DOMAIN tasks) THEN "constraint_violation"
  ELSE "ok"

NotificationSelect(uid, i) ==
  LET res == NotificationSelectResult(uid, i) IN
    /\ last' = Req("notifications_select", uid, i, NULL, res)
    /\ UNCHANGED <<profiles, tasks, notifications, designs, objects>>
    /\ UNCHANGED uiVars

NotificationUpdate(uid, i, patch) ==
  LET res == NotificationUpdateResult(uid, i, patch) IN
    /\ notifications' = IF res = "ok"
                        THEN [notifications EXCEPT ![i] = ApplyNotificationPatch(notifications[i], patch)]
                        ELSE notifications
    /\ last' = Req("notifications_update", uid, i, patch, res)
    /\ UNCHANGED <<profiles, tasks, designs, objects>>
    /\ UNCHANGED uiVars

NotificationInsert(uid, n) ==
  LET res == NotificationInsertResult(uid, n) IN
    /\ Len(notifications) < MaxNotifs
    /\ notifications' = IF res = "ok" THEN Append(notifications, n) ELSE notifications
    /\ last' = Req("notifications_insert", uid, Len(notifications'), n, res)
    /\ UNCHANGED <<profiles, tasks, designs, objects>>
    /\ UNCHANGED uiVars

\* ------------------------------------------------------ send_notification
\* A function whose INSERT meets no constraint.
SendNotificationResult_Unchecked(n, taskIds) == "ok"

\* INSERT INTO public.notifications ... RETURNING id, as SECURITY DEFINER: no
\* policy applies, only the table's constraints (taskIds: the rows of tasks).
SendNotificationResult(n, taskIds) ==
  IF NotificationInsertable(n, taskIds) THEN "ok" ELSE "constraint_violation"

\* rpc('send_notification', n) by principal uid; the id returned is the new
\* row's place in the table.
send_notification(uid, n) ==
  LET res == SendNotificationResult(n, DOMAIN tasks) IN
    /\ Len(notifications) < MaxNotifs
    /\ notifications' = IF res = "ok" THEN Append(notifications, n) ELSE notifications
    /\ last' = Req("send_notification", uid,
                   IF res = "ok" THEN Len(notifications') ELSE NULL, n, res)
    /\ UNCHANGED <<profiles, tasks, designs, objects>>
    /\ UNCHANGED uiVars

\* ----------------------------------------------------------- the clients
\* The signed-in users of the two dashboards: Index renders AdminDashboard
\* for the stored role 'admin' and DesignerDashboard for 'designer'.
Admin == "u1"
Designer == "u2"

\* The outcome the client sees: the backend's, or a transport failure.
Outcome(res, fault) == IF fault THEN "network_error" ELSE res
\* supabase-js returns { error } for every outcome but these two.
IsError(res) == res \notin {"ok", "no_rows"}

\* Date.now()-based object names are fresh: one per object stored so far.
FileNames == <<"f1", "f2", "f3", "f4", "f5", "f6">>
FreshFile == FileNames[Cardinality(objects) + 1]

\* A handler's run: whether its required fields were filled in, and the
\* outcome of its storage upload, of its table insert and of its rpc ("none":
\* the call was not made). n tells two runs apart.
Run(handler, valid, upload, write, rpc) ==
  [handler |-> handler, valid |-> valid, upload |-> upload, write |-> write, rpc |-> rpc,
   n |-> 1 - run.n]
\* A backend call that was made and returned an error.
Failed(res) == res \notin {"ok", "no_rows", "none"}

\* from('tasks').select('*') in TaskManager.fetchTasks: the rows the
\* policies show to the admin.
AdminFetch(tk) == [t \in {x \in DOMAIN tk : TasksPolicy(Admin, tk[x])} |-> tk[t]]

\* from('tasks').select('*').eq('assigned_to', user.id) in
\* DesignerDashboard.fetchTasks.
DesignerFetch(tk) ==
  [t \in {x \in DOMAIN tk : /\ TasksPolicy(Designer, tk[x])
                            /\ Passes(SqlEq(tk[x].assigned_to, Designer))} |-> tk[t]]

\* useEffect(() => fetchTasks(), []) of TaskManager; a failed select leaves
\* the list as it is and shows an error toast.
AdminFetchTasks(fault) ==
  /\ adminTasks' = IF fault THEN adminTasks ELSE AdminFetch(tasks)
  /\ adminToast' = IF fault THEN "error" ELSE adminToast
  /\ UNCHANGED <<profiles, tasks, notifications, designs, objects, last>>
  /\ UNCHANGED desVars
  /\ UNCHANGED run
  /\ UNCHANGED indexVars

\* useEffect(() => fetchTasks(), [user.id]) of DesignerDashboard.
DesignerFetchTasks(fault) ==
  /\ dpc = "idle"
  /\ desTasks' = IF fault THEN desTasks ELSE DesignerFetch(tasks)
  /\ desToast' = IF fault THEN "error" ELSE desToast
  /\ UNCHANGED <<profiles, tasks, notifications, designs, objects, last>>
  /\ UNCHANGED <<completedFile, uploading, dpc, dtask>>
  /\ UNCHANGED adminVars
  /\ UNCHANGED run
  /\ UNCHANGED indexVars

\* The notification createTask sends to the assigned designer.
AssignmentNotification(assigned_to, id) ==
  Notification(assigned_to, "new task", "title", "task", id)

\* TaskManager.createTask with a non-blank title: the reference image is
\* uploaded when a file is chosen (a failed upload yields no url), the row is
\* inserted with assigned_by = currentUserId and the default status, the
\* designer is notified when one is assigned (a failed rpc is only logged),
\* a success toast is shown and the list is fetched again.
createTask(id, assigned_to, referenceFile, upFault, insFault, rpcFault) ==
  LET name == <<"reference", FreshFile>>
      upRes == IF referenceFile
               THEN Outcome(StorageUploadResult(Admin, DesignsBucket, name), upFault)
               ELSE "none"
      referenceImageUrl == IF upRes = "ok" THEN "url" ELSE NULL
      row == TaskRow(assigned_to, Admin, "pending", referenceImageUrl, NULL, NULL)
      insRes == Outcome(TaskInsertResult(Admin, id, row), insFault)
      tasksNew == TasksAfterInsert(id, row, insRes)
      n == AssignmentNotification(assigned_to, id)
      rpcRes == IF insRes = "ok" /\ assigned_to # NULL
                THEN Outcome(SendNotificationResult(n, DOMAIN tasksNew), rpcFault)
                ELSE "none"
  IN
    /\ id \notin DOMAIN tasks
    /\ referenceFile => Cardinality(objects) < MaxObjects
    /\ objects' = IF upRes = "ok" THEN objects \cup {<<DesignsBucket, name>>} ELSE objects
    /\ tasks' = tasksNew
    /\ notifications' = IF rpcRes = "ok" THEN Append(notifications, n) ELSE notifications
    /\ last' = Req("tasks_insert", Admin, id, row, insRes)
    /\ adminToast' = IF IsError(insRes) THEN "error" ELSE "success"
    /\ adminTasks' = IF IsError(insRes) THEN adminTasks ELSE AdminFetch(tasksNew)
    /\ run' = Run("createTask", TRUE, upRes, insRes, rpcRes)
    /\ UNCHANGED indexVars
    /\ UNCHANGED <<profiles, designs>>
    /\ UNCHANGED desVars

\* TaskManager.createTask with a blank title: an error toast and nothing else.
createTaskNoTitle ==
  /\ adminToast' = "error"
  /\ run' = Run("createTask", FALSE, "none", "none", "none")
  /\ UNCHANGED indexVars
  /\ UNCHANGED <<profiles, tasks, notifications, designs, objects, last, adminTasks>>
  /\ UNCHANGED desVars

\* The status buttons of a task card in TaskManager: shown while the listed
\* status is not completed; "start" is disabled when it is in_progress.
AdminButton(id, newStatus) ==
  /\ id \in DOMAIN adminTasks
  /\ adminTasks[id].status # "completed"
  /\ newStatus \in {"in_progress", "completed"}
  /\ newStatus = "in_progress" => adminTasks[id].status # "in_progress"

\* The columns TaskManager.updateTaskStatus sets.
AdminStatusPatch(newStatus) ==
  Patch(newStatus, Keep, IF newStatus = "completed" THEN "ts" ELSE Keep, Keep)

\* TaskManager.updateTaskStatus(taskId, newStatus), from a status button.
AdminUpdateTaskStatus(id, newStatus, fault) ==
  LET patch == AdminStatusPatch(newStatus)
      res == Outcome(TaskUpdateResult(Admin, id, patch), fault)
      tasksNew == TasksAfterUpdate(id, patch, res)
  IN
    /\ AdminButton(id, newStatus)
    /\ tasks' = tasksNew
    /\ last' = Req("tasks_update", Admin, id, patch, res)
    /\ adminToast' = IF IsError(res) THEN "error" ELSE "success"
    /\ adminTasks' = IF IsError(res) THEN adminTasks ELSE AdminFetch(tasksNew)
    /\ UNCHANGED <<profiles, notifications, designs, objects>>
    /\ UNCHANGED desVars
    /\ UNCHANGED run
    /\ UNCHANGED indexVars

\* The columns DesignerDashboard.updateTaskStatus sets.
DesignerStatusPatch(newStatus, completedDesignUrl) ==
  IF newStatus = "completed"
  THEN Patch(newStatus, Keep, "ts", completedDesignUrl)
  ELSE Patch(newStatus, Keep, Keep, Keep)

\* The "start" button of a task card in DesignerDashboard, which calls
\* updateTaskStatus(task.id, 'in_progress'): shown while the listed status is
\* not completed, disabled when it is in_progress.
DesignerStartTask(id, fault) ==
  LET patch == DesignerStatusPatch("in_progress", NULL)
      res == Outcome(TaskUpdateResult(Designer, id, patch), fault)
      tasksNew == TasksAfterUpdate(id, patch, res)
  IN
    /\ dpc = "idle"
    /\ id \in DOMAIN desTasks
    /\ desTasks[id].status \notin {"completed", "in_progress"}
    /\ tasks' = tasksNew
    /\ last' = Req("tasks_update", Designer, id, patch, res)
    /\ desToast' = IF IsError(res) THEN "error" ELSE "success"
    /\ desTasks' = IF IsError(res) THEN desTasks ELSE DesignerFetch(tasksNew)
    /\ UNCHANGED <<profiles, notifications, designs, objects>>
    /\ UNCHANGED <<completedFile, uploading, dpc, dtask>>
    /\ UNCHANGED adminVars
    /\ UNCHANGED run
    /\ UNCHANGED indexVars

\* The file input of a task listed as in_progress: setCompletedFile.
DesignerSelectFile(file) ==
  /\ dpc = "idle"
  /\ \E id \in DOMAIN desTasks : desTasks[id].status = "in_progress"
  /\ completedFile' = file
  /\ UNCHANGED <<profiles, tasks, notifications, designs, objects, last>>
  /\ UNCHANGED <<desTasks, uploading, desToast, dpc, dtask>>
  /\ UNCHANGED adminVars
  /\ UNCHANGED run
  /\ UNCHANGED indexVars

\* A handleUpload without its two early returns.
handleUpload_NoValidation(title, selectedFile, id, upFault, insFault) ==
  LET name == <<Designer, FreshFile>>
      valid == TRUE
      upRes == IF valid
               THEN Outcome(StorageUploadResult(Designer, DesignsBucket, name), upFault)
               ELSE "none"
      insRes == IF upRes = "ok"
                THEN Outcome(DesignInsertResult(Designer, id, Designer), insFault)
                ELSE "none"
  IN
    /\ dpc = "idle" /\ ~uploading
    /\ id \notin DOMAIN designs
    /\ valid => Cardinality(objects) < MaxObjects
    /\ objects' = IF upRes = "ok" THEN objects \cup {<<DesignsBucket, name>>} ELSE objects
    /\ designs' = IF insRes = "ok"
                  THEN [d \in DOMAIN designs \cup {id} |->
                          IF d = id THEN [user_id |-> Designer] ELSE designs[d]]
                  ELSE designs
    /\ last' = IF upRes = "none" THEN last
               ELSE IF upRes = "ok" THEN Req("designs_insert", Designer, id, Designer, insRes)
               ELSE Req("storage_insert", Designer, <<DesignsBucket, name>>, NULL, upRes)
    /\ desToast' = IF upRes = "ok" /\ ~IsError(insRes) THEN "success" ELSE "error"
    /\ run' = Run("handleUpload", title /\ selectedFile, upRes, insRes, "none")
    /\ UNCHANGED indexVars
    /\ UNCHANGED <<profiles, tasks, notifications>>
    /\ UNCHANGED <<desTasks, completedFile, uploading, dpc, dtask>>
    /\ UNCHANGED <<adminTasks, adminToast>>

\* handleUpload, the submit handler of the design form (its button is
\* disabled while uploading): title is whether title.trim() is non-empty,
\* selectedFile whether a file is chosen. Without either it shows an error
\* toast and returns. Otherwise the file is uploaded to <user id>/<fresh
\* name> and the designs row is inserted with user_id = user.id; an error of
\* either is thrown and caught with an error toast; uploading is set before
\* the upload and reset in finally.
handleUpload(title, selectedFile, id, upFault, insFault) ==
  LET name == <<Designer, FreshFile>>
      valid == title /\ selectedFile
      upRes == IF valid
               THEN Outcome(StorageUploadResult(Designer, DesignsBucket, name), upFault)
               ELSE "none"
      insRes == IF upRes = "ok"
                THEN Outcome(DesignInsertResult(Designer, id, Designer), insFault)
                ELSE "none"
  IN
    /\ dpc = "idle" /\ ~uploading
    /\ id \notin DOMAIN designs
    /\ valid => Cardinality(objects) < MaxObjects
    /\ objects' = IF upRes = "ok" THEN objects \cup {<<DesignsBucket, name>>} ELSE objects
    /\ designs' = IF insRes = "ok"
                  THEN [d \in DOMAIN designs \cup {id} |->
                          IF d = id THEN [user_id |-> Designer] ELSE designs[d]]
                  ELSE designs
    /\ last' = IF upRes = "none" THEN last
               ELSE IF upRes = "ok" THEN Req("designs_insert", Designer, id, Designer, insRes)
               ELSE Req("storage_insert", Designer, <<DesignsBucket, name>>, NULL, upRes)
    /\ desToast' = IF upRes = "ok" /\ ~IsError(insRes) THEN "success" ELSE "error"
    /\ run' = Run("handleUpload", title /\ selectedFile, upRes, insRes, "none")
    /\ UNCHANGED indexVars
    /\ UNCHANGED <<profiles, tasks, notifications>>
    /\ UNCHANGED <<desTasks, completedFile, uploading, dpc, dtask>>
    /\ UNCHANGED <<adminTasks, adminToast>>

\* handleCompleteTask(task.id) entered with no completedFile: an error toast
\* and nothing else.
handleCompleteTaskNoFile(id) ==
  /\ dpc = "idle" /\ ~uploading
  /\ id \in DOMAIN desTasks
  /\ desTasks[id].status = "in_progress"
  /\ ~completedFile
  /\ desToast' = "error"
  /\ run' = Run("handleCompleteTask", FALSE, "none", "none", "none")
  /\ UNCHANGED indexVars
  /\ UNCHANGED <<profiles, tasks, notifications, designs, objects, last>>
  /\ UNCHANGED <<desTasks, completedFile, uploading, dpc, dtask>>
  /\ UNCHANGED <<adminTasks, adminToast>>

\* The task handleCompleteTask runs on, as its closure holds it.
NoTask == [id |-> NULL, assigned_by |-> NULL]

\* handleCompleteTask(task.id), from the "complete" button: rendered for a
\* task listed as in_progress once a file is chosen, disabled while
\* uploading. It sets uploading and starts the upload.
handleCompleteTask(id) ==
  /\ dpc = "idle"
  /\ id \in DOMAIN desTasks
  /\ desTasks[id].status = "in_progress"
  /\ completedFile
  /\ ~uploading
  /\ Cardinality(objects) < MaxObjects
  /\ uploading' = TRUE
  /\ dpc' = "upload"
  /\ dtask' = [id |-> id, assigned_by |-> desTasks[id].assigned_by]
  /\ UNCHANGED <<profiles, tasks, notifications, designs, objects, last>>
  /\ UNCHANGED <<desTasks, completedFile, desToast>>
  /\ UNCHANGED adminVars
  /\ UNCHANGED run
  /\ UNCHANGED indexVars

\* A handleCompleteTask that calls updateTaskStatus whatever the upload
\* returned.
uploadCompletedDesign_Proceeds(fault) ==
  LET name == <<"completed", Designer, FreshFile>>
      res == Outcome(StorageUploadResult(Designer, DesignsBucket, name), fault)
  IN
    /\ dpc = "upload"
    /\ objects' = IF res = "ok" THEN objects \cup {<<DesignsBucket, name>>} ELSE objects
    /\ last' = Req("storage_insert", Designer, <<DesignsBucket, name>>, NULL, res)
    /\ dpc' = "update"
    /\ uploading' = TRUE
    /\ UNCHANGED <<profiles, tasks, notifications, designs>>
    /\ UNCHANGED <<desTasks, completedFile, desToast, dtask>>
    /\ UNCHANGED adminVars
    /\ UNCHANGED run
    /\ UNCHANGED indexVars

\* uploadCompletedDesign(completedFile) returns: the url, or null when the
\* upload failed; on null handleCompleteTask only resets uploading.
uploadCompletedDesign(fault) ==
  LET name == <<"completed", Designer, FreshFile>>
      res == Outcome(StorageUploadResult(Designer, DesignsBucket, name), fault)
  IN
    /\ dpc = "upload"
    /\ objects' = IF res = "ok" THEN objects \cup {<<DesignsBucket, name>>} ELSE objects
    /\ last' = Req("storage_insert", Designer, <<DesignsBucket, name>>, NULL, res)
    /\ dpc' = IF res = "ok" THEN "update" ELSE "idle"
    /\ uploading' = (res = "ok")
    /\ UNCHANGED <<profiles, tasks, notifications, designs>>
    /\ UNCHANGED <<desTasks, completedFile, desToast, dtask>>
    /\ UNCHANGED adminVars
    /\ UNCHANGED run
    /\ UNCHANGED indexVars

\* An updateTaskStatus without `if (error) throw error`: the notification
\* is sent whatever the update returned.
DesignerUpdateReturns_NoThrow(fault) ==
  LET patch == DesignerStatusPatch("completed", "url")
      res == Outcome(TaskUpdateResult(Designer, dtask.id, patch), fault)
  IN
    /\ dpc = "update"
    /\ tasks' = TasksAfterUpdate(dtask.id, patch, res)
    /\ last' = Req("tasks_update", Designer, dtask.id, patch, res)
    /\ dpc' = "notify"
    /\ UNCHANGED <<desToast, completedFile, uploading>>
    /\ UNCHANGED <<profiles, notifications, designs, objects>>
    /\ UNCHANGED <<desTasks, dtask>>
    /\ UNCHANGED adminVars
    /\ UNCHANGED run
    /\ UNCHANGED indexVars

\* updateTaskStatus(taskId, 'completed', completedDesignUrl): the update
\* returns. On an error the function shows an error toast and returns, and
\* handleCompleteTask clears completedFile and uploading.
DesignerUpdateReturns(fault) ==
  LET patch == DesignerStatusPatch("completed", "url")
      res == Outcome(TaskUpdateResult(Designer, dtask.id, patch), fault)
  IN
    /\ dpc = "update"
    /\ tasks' = TasksAfterUpdate(dtask.id, patch, res)
    /\ last' = Req("tasks_update", Designer, dtask.id, patch, res)
    /\ IF IsError(res)
       THEN /\ desToast' = "error"
            /\ completedFile' = FALSE
            /\ uploading' = FALSE
            /\ dpc' = "idle"
       ELSE /\ dpc' = "notify"
            /\ UNCHANGED <<desToast, completedFile, uploading>>
    /\ UNCHANGED <<profiles, notifications, designs, objects>>
    /\ UNCHANGED <<desTasks, dtask>>
    /\ UNCHANGED adminVars
    /\ UNCHANGED run
    /\ UNCHANGED indexVars

\* p_user_id: user.id, the designer's own id.
CompletionRecipient_Self(task) == Designer

\* p_user_id: task.assigned_by, of the task found in the listed tasks.
CompletionRecipient(task) == task.assigned_by

\* The notification updateTaskStatus sends when newStatus is 'completed'.
CompletionNotification(task) ==
  Notification(CompletionRecipient(task), "task completed", "title", "task_completed",
               task.id)

\* rpc('send_notification', ...) returns (its error is not looked at); the
\* success toast is shown, the list is fetched again, and handleCompleteTask
\* clears completedFile and uploading.
DesignerNotifyReturns(fault) ==
  LET n == CompletionNotification(dtask)
      res == Outcome(SendNotificationResult(n, DOMAIN tasks), fault)
  IN
    /\ dpc = "notify"
    /\ notifications' = IF res = "ok" THEN Append(notifications, n) ELSE notifications
    /\ last' = Req("send_notification", Designer, n.user_id, n.task_id, res)
    /\ desToast' = "success"
    /\ desTasks' = DesignerFetch(tasks)
    /\ completedFile' = FALSE
    /\ uploading' = FALSE
    /\ dpc' = "idle"
    /\ UNCHANGED <<profiles, tasks, designs, objects>>
    /\ UNCHANGED dtask
    /\ UNCHANGED adminVars
    /\ UNCHANGED run
    /\ UNCHANGED indexVars

\* ------------------------------------------------------------- Index page
\* What Index returns from its render, from loading, session, user and
\* userRole.
Rendered ==
  IF loading THEN "spinner"
  ELSE IF session = NULL THEN "AuthPage"
  ELSE IF userRole = NULL THEN "setup"
  ELSE IF userRole = "admin" THEN "AdminDashboard"
  ELSE IF userRole = "designer" THEN "DesignerDashboard"
  ELSE "undefined_role"

\* The callback of onAuthStateChange, called with the session of user s (NULL:
\* no session), up to its await: it sets session and user, and with a user
\* it sends the role fetch; without one it clears userRole and loading.
onAuthStateChange(s) ==
  /\ authUser' = s
  /\ session' = s
  /\ IF s # NULL
     THEN /\ fetching' = fetching \cup {s}
          /\ UNCHANGED <<userRole, loading>>
     ELSE /\ userRole' = NULL
          /\ loading' = FALSE
          /\ UNCHANGED fetching
  /\ UNCHANGED <<gpc, indexToast>>
  /\ UNCHANGED <<profiles, tasks, notifications, designs, objects, last>>
  /\ UNCHANGED dashVars

\* from('profiles').select('role').eq('id', session.user.id).single() as
\* Index sees it: answer is what the backend sends, the row or an error;
\* single() turns an empty result into an error.
RoleFetchResult(uid, answer) ==
  IF answer = "error" THEN "error"
  ELSE IF get_user_role(uid) = NULL THEN "no_rows_error"
  ELSE "ok"

\* The role fetch sent for user uid returns and the callback resumes: an
\* error toast, or setUserRole(profile.role) whoever is signed in by then;
\* then setLoading(false).
RoleFetchReturns(uid, answer) ==
  LET res == RoleFetchResult(uid, answer) IN
    /\ uid \in fetching
    /\ fetching' = fetching \ {uid}
    /\ last' = Req("profiles_select", uid, uid, NULL, res)
    /\ IF res # "ok"
       THEN indexToast' = "error" /\ UNCHANGED userRole
       ELSE /\ userRole' = get_user_role(uid)
            /\ UNCHANGED indexToast
    /\ loading' = FALSE
    /\ UNCHANGED <<authUser, session, gpc>>
    /\ UNCHANGED <<profiles, tasks, notifications, designs, objects>>
    /\ UNCHANGED dashVars

\* supabase.auth.getSession().then(...): sets session and user from the
\* client's session and clears loading.
getSessionReturns ==
  /\ gpc = "pending"
  /\ gpc' = "done"
  /\ session' = authUser
  /\ loading' = FALSE
  /\ UNCHANGED <<authUser, userRole, fetching, indexToast>>
  /\ UNCHANGED <<profiles, tasks, notifications, designs, objects, last>>
  /\ UNCHANGED dashVars

\* ------------------------------------------------------------ initial state
NoRequest == Req("none", NULL, NULL, NULL, "none")
NoRows == [x \in {} |-> NULL]

Init ==
  /\ profiles = [u \in Users |->
                   IF u = "u1" THEN "admin" ELSE IF u = "u2" THEN "designer" ELSE NULL]
  /\ tasks = NoRows
  /\ notifications = <<>>
  /\ designs = NoRows
  /\ objects = {}
  /\ last = NoRequest
  /\ adminTasks = NoRows
  /\ adminToast = "none"
  /\ desTasks = NoRows
  /\ completedFile = FALSE
  /\ uploading = FALSE
  /\ desToast = "none"
  /\ dpc = "idle"
  /\ dtask = NoTask
  /\ run = [handler |-> "none", valid |-> TRUE, upload |-> "none", write |-> "none",
            rpc |-> "none", n |-> 0]
  /\ authUser = NULL
  /\ session = NULL
  /\ userRole = NULL
  /\ loading = TRUE
  /\ fetching = {}
  /\ gpc = "pending"
  /\ indexToast = "none"

\* ------------------------------------- role management: profiles and roles
RoleInputs == ValidRoles \cup {Owner}

InsertProfileAny == \E uid \in Users, id \in Users, role \in RoleInputs \cup {NULL} :
  InsertProfile(uid, id, role)
UpdateProfileAny == \E uid \in Users, id \in Users, role \in RoleInputs \cup {NULL} :
  UpdateProfile(uid, id, role)
ProfileSelectAny == \E uid \in Users, id \in Users : ProfileSelect(uid, id)
UpdateUserRoleAny ==
  \E uid \in Users, target \in Users \cup {Ghost}, role \in RoleInputs \cup {NULL} :
    update_user_role(uid, target, role)

Next == InsertProfileAny \/ UpdateProfileAny \/ UpdateUserRoleAny \/ ProfileSelectAny

Spec == Init /\ [][Next]_vars

\* ------------------------------------------- direct requests on public.tasks
\* The rows and patches a client can send.
TaskRowInputs ==
  {TaskRow(to, by, st, NULL, NULL, NULL) : to \in Users \cup {NULL}, by \in Users, st \in Statuses}
TaskPatchInputs ==
  {Patch(st, Keep, Keep, Keep) : st \in Statuses}
    \cup {Patch(Keep, to, Keep, Keep) : to \in Users \cup {NULL}}
    \cup {Patch("completed", Keep, "ts", url) : url \in {Keep, "url"}}

TaskInsertAny == \E uid \in Users, id \in TaskIds, row \in TaskRowInputs :
  TaskInsert(uid, id, row)
TaskUpdateAny == \E uid \in Users, id \in TaskIds, patch \in TaskPatchInputs :
  TaskUpdate(uid, id, patch)
TaskDeleteAny == \E uid \in Users, id \in TaskIds : TaskDelete(uid, id)
TaskSelectAny == \E uid \in Users, id \in TaskIds : TaskSelect(uid, id)

NextTasks == TaskInsertAny \/ TaskUpdateAny \/ TaskDeleteAny \/ TaskSelectAny

SpecTasks == Init /\ [][NextTasks]_vars

\* ------------------------- direct requests on public.designs and the bucket
\* Object paths: a file in a user's folder, the TaskManager's reference/
\* prefix, the DesignerDashboard's completed/<user id>/ prefix, a bare name.
ObjectNames ==
  {<<u, "a.png">> : u \in Users}
    \cup {<<"reference", "a.png">>, <<"completed", "u2", "a.png">>, <<"a.png">>}
Buckets == {DesignsBucket, OtherBucket}

DesignInsertAny == \E uid \in Users, id \in DesignIds, user_id \in Users \cup {NULL} :
  DesignInsert(uid, id, user_id)
DesignUpdateAny == \E uid \in Users, id \in DesignIds, user_id \in Users \cup {NULL} :
  DesignUpdate(uid, id, user_id)
DesignDeleteAny == \E uid \in Users, id \in DesignIds : DesignDelete(uid, id)
StorageUploadAny == \E uid \in Users, bucket \in Buckets, name \in ObjectNames :
  StorageUpload(uid, bucket, name)
StorageDeleteAny == \E uid \in Users, bucket \in Buckets, name \in ObjectNames :
  StorageDelete(uid, bucket, name)

StorageSelectAny == \E uid \in Users, bucket \in Buckets, name \in ObjectNames :
  StorageSelect(uid, bucket, name)
StorageUpdateAny == \E uid \in Users, bucket \in Buckets, name \in ObjectNames :
  StorageUpdate(uid, bucket, name)

NextStore ==
  \/ DesignInsertAny \/ DesignUpdateAny \/ DesignDeleteAny
  \/ StorageUploadAny \/ StorageDeleteAny

SpecStore == Init /\ [][NextStore]_vars

\* Requests on storage.objects alone: upload, download, update, remove.
NextBucket ==
  \/ StorageUploadAny \/ StorageDeleteAny
  \/ StorageSelectAny \/ StorageUpdateAny

SpecBucket == Init /\ [][NextBucket]_vars

\* ---------------------------------- direct requests on public.notifications
\* The rows a client can send: every recipient (a user, no user, none) with
\* and without a task, and one row for each other missing required field.
NotificationInputs ==
  {Notification(u, "title", "message", "info", t) :
     u \in {"u1", "u2", Ghost, NULL}, t \in TaskIds \cup {NULL}}
    \cup {Notification("u1", NULL, "message", "info", NULL),
          Notification("u1", "title", NULL, "info", NULL),
          Notification("u1", "title", "message", NULL, NULL)}
NotificationPatchInputs ==
  {NotificationPatch(u, r) : u \in {Keep, "u1", "u2"}, r \in {Keep, "true"}}

NotificationInsertAny ==
  \E uid \in Users, u \in {"u1", "u2"} :
    NotificationInsert(uid, Notification(u, "title", "message", "info", NULL))
SendNotificationAny == \E uid \in Users, n \in NotificationInputs : send_notification(uid, n)
NotificationSelectAny == \E uid \in Users, i \in 1..MaxNotifs : NotificationSelect(uid, i)
NotificationUpdateAny ==
  \E uid \in Users, i \in 1..MaxNotifs, patch \in NotificationPatchInputs :
    NotificationUpdate(uid, i, patch)
\* A task for notifications to refer to.
NotificationTaskAny ==
  \E uid \in Users, id \in TaskIds :
    TaskInsert(uid, id, TaskRow(NULL, uid, "pending", NULL, NULL, NULL))

NextNotif ==
  \/ NotificationInsertAny \/ SendNotificationAny
  \/ NotificationSelectAny \/ NotificationUpdateAny
  \/ NotificationTaskAny

SpecNotif == Init /\ [][NextNotif]_vars

\* ----------------------------- the two dashboards acting on the same backend
\* The designers TaskManager offers for assignment, or none: fetchDesigners
\* selects the profiles with role 'designer' and leaves the list empty when
\* the select fails.
Assignees ==
  (IF ProfileSelectResult(Admin, Designer) = "policy_recursion" THEN {}
   ELSE {u \in Users : get_user_role(u) = "designer"}) \cup {NULL}

\* A request of the admin's session outside TaskManager, which has no control
\* for it: UPDATE tasks SET assigned_to = <a designer> WHERE id = id.
AdminAssignStep ==
  \E id \in TaskIds : TaskUpdate(Admin, id, Patch(Keep, Designer, Keep, Keep))

\* The steps of the clients; faults: whether a request may fail in transport.
AdminFetchStep(faults) == \E fault \in faults : AdminFetchTasks(fault)
AdminCreateStep(faults) ==
  \E id \in TaskIds, to \in Assignees, file \in BOOLEAN, f1 \in faults, f2 \in faults,
     f3 \in faults : createTask(id, to, file, f1, f2, f3)
AdminStatusStep(faults) ==
  \E id \in TaskIds, st \in Statuses, fault \in faults : AdminUpdateTaskStatus(id, st, fault)
DesignerFetchStep(faults) == \E fault \in faults : DesignerFetchTasks(fault)
DesignerStartStep(faults) == \E id \in TaskIds, fault \in faults : DesignerStartTask(id, fault)
DesignerFileStep == \E file \in BOOLEAN : DesignerSelectFile(file)
DesignerDesignStep(faults) ==
  \E title \in BOOLEAN, file \in BOOLEAN, id \in DesignIds, f1 \in faults, f2 \in faults :
    handleUpload(title, file, id, f1, f2)
DesignerNoFileStep == \E id \in TaskIds : handleCompleteTaskNoFile(id)
DesignerCompleteStep == \E id \in TaskIds : handleCompleteTask(id)
DesignerUploadStep(faults) == \E fault \in faults : uploadCompletedDesign(fault)
DesignerUpdateStep(faults) == \E fault \in faults : DesignerUpdateReturns(fault)
DesignerNotifyStep(faults) == \E fault \in faults : DesignerNotifyReturns(fault)

AppStep(faults) ==
  \/ AdminFetchStep(faults)
  \/ AdminCreateStep(faults)
  \/ createTaskNoTitle
  \/ AdminStatusStep(faults)
  \/ AdminAssignStep
  \/ DesignerFetchStep(faults)
  \/ DesignerStartStep(faults)
  \/ DesignerFileStep
  \/ DesignerNoFileStep
  \/ DesignerCompleteStep
  \/ DesignerUploadStep(faults)
  \/ DesignerUpdateStep(faults)
  \/ DesignerNotifyStep(faults)

\* Every request may fail in transport.
NextApp == AppStep(BOOLEAN)
SpecApp == Init /\ [][NextApp]_vars

\* The dashboards with the design form of DesignerDashboard: the requests of
\* handleUpload may fail in transport, the others do not.
NextForms == AppStep({FALSE}) \/ DesignerDesignStep(BOOLEAN)
SpecForms == Init /\ [][NextForms]_vars

\* The Index page: auth events, the answers of the role fetches and of
\* getSession, in any order.
AuthEvent == \E s \in Users \cup {NULL} : onAuthStateChange(s)
RoleFetchStep == \E uid \in Users, answer \in {"row", "error"} : RoleFetchReturns(uid, answer)
NextIndex == AuthEvent \/ RoleFetchStep \/ getSessionReturns
SpecIndex == Init /\ [][NextIndex]_vars

\* No request fails in transport; an async handler that awaits a request
\* resumes when the request returns.
NextLive == AppStep({FALSE})
LiveApp ==
  /\ Init
  /\ [][NextLive]_vars
  /\ WF_vars(DesignerUploadStep({FALSE}))
  /\ WF_vars(DesignerUpdateStep({FALSE}))
  /\ WF_vars(DesignerNotifyStep({FALSE}))

\* ================================================================ claims

\* The role table p stores for id, NULL when it holds no row for it.
RoleIn(p, id) == IF id \in Users THEN p[id] ELSE NULL

\* C1: a direct UPDATE by principal p of p's own profiles row whose new role
\* differs from the role stored for p is rejected with an error by the
\* policies of profiles, and the profiles table is unchanged.
C1_SelfRoleChangeRejected ==
  [][(/\ last'.op = "profiles_update"
      /\ last'.id = last'.caller
      /\ get_user_role(last'.caller) # NULL
      /\ last'.val # get_user_role(last'.caller))
     => (/\ last'.res \in {"rls_violation", "policy_recursion"}
         /\ profiles' = profiles)]_vars

\* C1 witness: an own-row update to another valid role was refused.
C1_Witness ==
  /\ last.op = "profiles_update" /\ last.id = last.caller
  /\ last.res \in {"rls_violation", "policy_recursion"}
  /\ last.val \in ValidRoles
  /\ get_user_role(last.caller) \in ValidRoles \ {last.val}

\* C2: update_user_role succeeds only for a caller whose stored role is
\* 'admin'; for any other caller (role 'designer' or no profiles row) it
\* fails and changes neither profiles nor notifications.
C2_OnlyAdminUpdatesRoles ==
  [][(last'.op = "update_user_role" /\ get_user_role(last'.caller) # "admin")
     => (/\ last'.res # "ok"
         /\ profiles' = profiles
         /\ notifications' = notifications)]_vars

\* C3: update_user_role with a new_role outside {admin, designer} fails, the
\* target's stored role stays as it was and no notification is inserted.
C3_InvalidRoleRejected ==
  [][(last'.op = "update_user_role" /\ last'.val \notin ValidRoles)
     => (/\ last'.res # "ok"
         /\ RoleIn(profiles', last'.id) = RoleIn(profiles, last'.id)
         /\ notifications' = notifications)]_vars

\* C3 witness: an admin's call with new_role = "owner" raised 'Invalid role'.
C3_Witness ==
  /\ last.op = "update_user_role" /\ last.val = Owner
  /\ get_user_role(last.caller) = "admin"
  /\ last.res = "invalid_role"

\* C4: update_user_role is atomic for every target id: after a call either
\* the target's stored role equals new_role and exactly one 'Role Updated'
\* notification addressed to the target was added, or neither profiles nor
\* notifications changed.
C4_RoleUpdateAtomic ==
  [][last'.op = "update_user_role"
     => (\/ /\ RoleIn(profiles', last'.id) = last'.val
            /\ notifications' =
                 Append(notifications, RoleNotification(last'.id, last'.val))
         \/ /\ profiles' = profiles
            /\ notifications' = notifications)]_vars

\* C5: a principal whose stored role is not 'admin' and whose id differs
\* from a task's assigned_to is denied every UPDATE of that task: the update
\* does not take effect and the task row is unchanged.
C5_UnassignedDesignerCannotUpdate ==
  [][(/\ last'.op = "tasks_update"
      /\ last'.id \in DOMAIN tasks
      /\ get_user_role(last'.caller) # "admin"
      /\ tasks[last'.id].assigned_to # last'.caller)
     => (last'.res # "ok" /\ tasks' = tasks)]_vars

\* C5 witness: a designer's update of a task assigned to someone else found
\* no row to update.
C5_Witness ==
  /\ last.op = "tasks_update" /\ last.res = "no_rows"
  /\ last.id \in DOMAIN tasks
  /\ get_user_role(last.caller) = "designer"
  /\ tasks[last.id].assigned_to \in Users \ {last.caller}

\* C6: with all storage policies in force together, an INSERT of an object
\* into the 'designs' bucket at a path whose first folder segment differs
\* from the caller's id is rejected, for every authenticated caller.
C6_ForeignFolderUploadRejected ==
  [][(/\ last'.op = "storage_insert"
      /\ last'.id[1] = DesignsBucket
      /\ FirstFolder(last'.id[2]) \notin {NULL, last'.caller})
     => (last'.res = "rls_violation" /\ objects' = objects)]_vars

\* C8: an INSERT into designs whose row carries a user_id different from the
\* inserting principal's id is rejected, and the designs table is unchanged.
C8_ForeignDesignInsertRejected ==
  [][(last'.op = "designs_insert" /\ last'.val # last'.caller)
     => (last'.res # "ok" /\ designs' = designs)]_vars

\* C8 witness: a designer's insert of a row owned by another principal, under
\* an unused id, was refused by the insert policy.
C8_Witness ==
  /\ last.op = "designs_insert" /\ last.res = "rls_violation"
  /\ get_user_role(last.caller) = "designer"
  /\ last.val \in Users \ {last.caller}
  /\ last.id \notin DOMAIN designs

\* A 'task_completed' notification for task id addressed to its assigned_by.
HasCompletionNotification(id) ==
  /\ id \in DOMAIN tasks
  /\ \E i \in 1..Len(notifications) :
       /\ notifications[i].user_id = tasks[id].assigned_by
       /\ notifications[i].type = "task_completed"
       /\ notifications[i].task_id = id

\* C7: once designer X, assigned a task by an admin, has uploaded the
\* completed artifact and set the task to completed through the designer
\* dashboard, a notification with user_id = the task's assigned_by, type
\* 'task_completed' and task_id = the task eventually exists.
C7_CompletionNotifiesAdmin ==
  \A id \in TaskIds :
    (dpc = "notify" /\ dtask.id = id) ~> HasCompletionNotification(id)

\* C7 witness: a task assigned to the designer by the admin is completed with
\* its artifact, the dashboard's handler has finished and the admin's
\* notification is there.
C7_Witness ==
  \E id \in DOMAIN tasks :
    /\ tasks[id].assigned_to = Designer /\ tasks[id].assigned_by = Admin
    /\ tasks[id].status = "completed" /\ tasks[id].completed_design_url # NULL
    /\ dpc = "idle" /\ dtask.id = id
    /\ HasCompletionNotification(id)

\* The place of a status in the order pending, in_progress, completed.
Rank(status) == IF status = "pending" THEN 0 ELSE IF status = "in_progress" THEN 1 ELSE 2

\* C9: in every behaviour, the admin task manager and the designer dashboard
\* acting concurrently on cached lists included, a task's stored status only
\* moves forward in the order pending, in_progress, completed.
C9_StatusMonotonic ==
  [][\A id \in DOMAIN tasks \cap DOMAIN tasks' :
       Rank(tasks'[id].status) >= Rank(tasks[id].status)]_vars

\* C10: in every reachable state, a task whose completed_at or
\* completed_design_url is set has status = completed.
C10_CompletionFieldsImplyCompleted ==
  \A id \in DOMAIN tasks :
    (tasks[id].completed_at # NULL \/ tasks[id].completed_design_url # NULL)
      => tasks[id].status = "completed"

\* C11: in every reachable state, whichever client performed the transition,
\* every task with status = completed has a non-null completed_design_url
\* and a non-null completed_at.
C11_CompletedHasArtifact ==
  \A id \in DOMAIN tasks :
    tasks[id].status = "completed"
      => (tasks[id].completed_design_url # NULL /\ tasks[id].completed_at # NULL)

\* C12: every step that moves a task into status completed, by any client,
\* is taken by a handler that goes on to call send_notification for that
\* task, addressed to the task's assigned_by.
C12_CompletionTriggersNotification ==
  [][\A id \in DOMAIN tasks \cap DOMAIN tasks' :
       (tasks[id].status # "completed" /\ tasks'[id].status = "completed")
         => (/\ dpc' = "notify"
             /\ dtask'.id = id
             /\ CompletionRecipient(dtask') = tasks'[id].assigned_by)]_vars

\* C13: every task row that comes into existence has status pending and an
\* assigned_by equal to the id of the principal that created it, and that
\* principal's stored role is 'admin'; no principal whose stored role is
\* 'designer' can insert a task row.
C13_TasksCreatedPendingByAdmin ==
  [][\A id \in DOMAIN tasks' \ DOMAIN tasks :
       /\ tasks'[id].status = "pending"
       /\ tasks'[id].assigned_by = last'.caller
       /\ get_user_role(last'.caller) = "admin"]_vars

\* C14: the backend enforces no sequential gate: an authorized principal's
\* update of a pending task directly to completed takes effect, and the
\* admin task manager offers that transition for every task it lists as
\* pending; the designer dashboard starts a completion only for a task it
\* lists as in_progress.
C14_NoSequentialGate ==
  [][/\ (/\ last'.op = "tasks_update"
         /\ last'.id \in DOMAIN tasks
         /\ tasks[last'.id].status = "pending"
         /\ last'.val.status = "completed"
         /\ TasksPolicy(last'.caller, tasks[last'.id])
         /\ last'.res # "network_error")
        => (/\ last'.res = "ok"
            /\ last'.id \in DOMAIN tasks'
            /\ tasks'[last'.id].status = "completed")
     /\ \A id \in DOMAIN adminTasks :
          adminTasks[id].status = "pending" => AdminButton(id, "completed")
     /\ (dpc = "idle" /\ dpc' = "upload")
        => (dtask'.id \in DOMAIN desTasks /\ desTasks[dtask'.id].status = "in_progress")
    ]_vars

\* C14 witness: the admin's 'completed' button has completed a task that the
\* assigned designer's dashboard still lists as pending.
C14_Witness ==
  /\ last.op = "tasks_update" /\ last.caller = Admin /\ last.res = "ok"
  /\ last.val.status = "completed"
  /\ last.id \in DOMAIN tasks /\ tasks[last.id].status = "completed"
  /\ tasks[last.id].completed_design_url = NULL
  /\ last.id \in DOMAIN desTasks /\ desTasks[last.id].status = "pending"

\* C15: while a task's assigned_to is null, every SELECT, UPDATE and DELETE
\* of it by a principal whose stored role is not 'admin' finds no row and
\* leaves the tasks table as it is (so only an admin can set assigned_to).
C15_UnassignedTaskAdminOnly ==
  [][(/\ last'.op \in {"tasks_select", "tasks_update", "tasks_delete"}
      /\ last'.id \in DOMAIN tasks
      /\ tasks[last'.id].assigned_to = NULL
      /\ get_user_role(last'.caller) # "admin")
     => (last'.res = "no_rows" /\ tasks' = tasks)]_vars

\* C15 witness: a designer's DELETE of a task assigned to nobody found no
\* row, and the task is still there.
C15_Witness ==
  /\ last.op = "tasks_delete" /\ last.res = "no_rows"
  /\ get_user_role(last.caller) = "designer"
  /\ last.id \in DOMAIN tasks
  /\ tasks[last.id].assigned_to = NULL

\* C16: a SELECT or UPDATE of a notification takes effect only for the
\* principal whose id is the row's user_id, admins included; for any other
\* principal it finds no row and changes nothing, and an UPDATE never leaves
\* the row with another recipient.
C16_NotificationsOwnerOnly ==
  [][(/\ last'.op \in {"notifications_select", "notifications_update"}
      /\ last'.id \in 1..Len(notifications))
     => (/\ notifications[last'.id].user_id # last'.caller
            => (last'.res = "no_rows" /\ notifications' = notifications)
         /\ Len(notifications') = Len(notifications)
         /\ notifications'[last'.id].user_id = notifications[last'.id].user_id
         /\ \A i \in 1..Len(notifications) :
              i # last'.id => notifications'[i] = notifications[i])]_vars

\* C16 witness: the admin's UPDATE of a notification addressed to another
\* principal found no row.
C16_Witness ==
  /\ last.op = "notifications_update" /\ last.res = "no_rows"
  /\ get_user_role(last.caller) = "admin"
  /\ last.id \in 1..Len(notifications)
  /\ notifications[last.id].user_id \in Users \ {last.caller}
  /\ last.val.read = "true"

\* The recipient or the task id of n refers to no row (a foreign-key violation).
ForeignKeyViolated(n, taskIds) ==
  \/ n.user_id # NULL /\ n.user_id \notin Users
  \/ n.task_id # NULL /\ n.task_id \notin taskIds

\* A required column of n (user_id, title, message, type) is null.
RequiredFieldNull(n) ==
  n.user_id = NULL \/ n.title = NULL \/ n.message = NULL \/ n.type = NULL

\* The step was a send_notification call that failed and inserted nothing.
SendFailed == last'.res # "ok" /\ notifications' = notifications

\* The step was a send_notification call that inserted exactly the row asked
\* for, unread, and returned its id.
SendInserted ==
  /\ last'.res = "ok"
  /\ notifications' = Append(notifications, [last'.val EXCEPT !.read = FALSE])
  /\ last'.id = Len(notifications')

\* C19 as stated: send_notification called by any authenticated principal
\* inserts exactly one row with the given fields and read = false and
\* returns its id; it fails, inserting nothing, only when the recipient or
\* the task id violates a foreign-key constraint.
C19_SendFailsOnlyOnForeignKey ==
  [][last'.op = "send_notification"
     => IF ForeignKeyViolated(last'.val, DOMAIN tasks) THEN SendFailed ELSE SendInserted]_vars

\* C19 amended: send_notification called by any authenticated principal
\* inserts exactly one row with the given fields and read = false and
\* returns its id; it fails, inserting nothing, exactly when the recipient
\* or the task id violates a foreign-key constraint or the recipient, title,
\* message or type given is null.
C19_SendFailsOnConstraint ==
  [][last'.op = "send_notification"
     => IF ForeignKeyViolated(last'.val, DOMAIN tasks) \/ RequiredFieldNull(last'.val)
        THEN SendFailed ELSE SendInserted]_vars

\* C19 witness: a principal with no profile sent a notification for an
\* existing task to another principal; it is the last row and its id was
\* returned.
C19_Witness ==
  /\ last.op = "send_notification" /\ last.res = "ok"
  /\ get_user_role(last.caller) = NULL
  /\ last.val.user_id \in Users \ {last.caller}
  /\ last.val.task_id \in DOMAIN tasks
  /\ last.id = Len(notifications)
  /\ notifications[last.id] = last.val

\* C17: in every reachable state, after any sequence of profile inserts,
\* direct profile updates and update_user_role calls, every profiles row
\* has role in {admin, designer} (profiles[u] = NULL: u has no row).
C17_RolesValid ==
  \A u \in Users : profiles[u] # NULL => profiles[u] \in ValidRoles

\* C17 witness: a principal has inserted a row with a valid role, and the
\* last insert, of a row with role 'owner', was refused by valid_roles.
C17_Witness ==
  /\ profiles["u3"] \in ValidRoles
  /\ last.op = "profiles_insert" /\ last.val = Owner
  /\ last.res = "check_violation"

\* C18: a principal whose stored role is not 'admin' selects, inserts and
\* updates only the profiles row whose id is its own; a principal whose
\* stored role is 'admin' is shown every profiles row it selects, and its
\* insert or direct update of another principal's row does not take effect.
C18_ProfilesOwnRowAdminReadsAll ==
  [][last'.op \in {"profiles_select", "profiles_insert", "profiles_update"}
     => IF get_user_role(last'.caller) = "admin"
        THEN /\ (last'.op = "profiles_select" /\ get_user_role(last'.id) # NULL)
                  => last'.res = "ok"
             /\ (last'.op # "profiles_select" /\ last'.id # last'.caller)
                  => (last'.res # "ok" /\ profiles' = profiles)
        ELSE /\ last'.res = "ok" => last'.id = last'.caller
             /\ last'.id # last'.caller => profiles' = profiles]_vars

\* C20: with the final designs policies in force, no step changes the
\* user_id of a design; an UPDATE or DELETE by a principal other than the
\* row's user_id finds no row and changes nothing, and an owner's UPDATE
\* that sets user_id to another principal is refused.
C20_DesignOwnerImmutable ==
  [][/\ \A id \in DOMAIN designs \cap DOMAIN designs' :
          designs'[id].user_id = designs[id].user_id
     /\ (/\ last'.op \in {"designs_update", "designs_delete"}
         /\ last'.id \in DOMAIN designs
         /\ designs[last'.id].user_id # last'.caller)
        => (last'.res = "no_rows" /\ designs' = designs)
     /\ (/\ last'.op = "designs_update"
         /\ last'.id \in DOMAIN designs
         /\ last'.val # designs[last'.id].user_id)
        => (last'.res # "ok" /\ designs' = designs)]_vars

\* C20 witness: the owner's UPDATE of a design that sets user_id to another
\* principal was refused by the policy's WITH CHECK.
C20_Witness ==
  /\ last.op = "designs_update" /\ last.res = "rls_violation"
  /\ last.id \in DOMAIN designs
  /\ designs[last.id].user_id = last.caller
  /\ last.val \in Users \ {last.caller}

\* C21: an UPDATE or DELETE of an object of the 'designs' bucket takes
\* effect only for the principal whose id is the first folder of the
\* object's path, so for no principal on an object under 'reference/' or
\* 'completed/'; a SELECT of an object of the bucket shows it to every
\* authenticated principal.
C21_StorageOwnFolderOnly ==
  [][(/\ last'.op \in {"storage_update", "storage_delete", "storage_select"}
      /\ last'.id \in objects)
     => IF last'.op = "storage_select"
        THEN last'.res = "ok"
        ELSE /\ FirstFolder(last'.id[2]) # last'.caller
                  => (last'.res = "no_rows" /\ objects' = objects)
             /\ FirstFolder(last'.id[2]) \in {"reference", "completed"}
                  => (last'.res = "no_rows" /\ objects' = objects)]_vars

\* C21 witness: the principal whose id is the second segment of an object
\* stored under 'completed/' tried to delete it and found no row.
C21_Witness ==
  /\ last.op = "storage_delete" /\ last.res = "no_rows"
  /\ last.id \in objects
  /\ last.id[2] = <<"completed", last.caller, "a.png">>

\* C22: update_user_role checks the caller before it validates new_role: a
\* caller whose stored role is 'designer' gets 'Only admins can update user
\* roles' whatever new_role is, an invalid one included, and 'Invalid role'
\* is raised only for a caller that the admin check let through.
C22_AdminCheckBeforeValidation ==
  [][last'.op = "update_user_role"
     => (/\ RoleIn(profiles, last'.caller) = "designer" => last'.res = "not_admin"
         /\ last'.res = "invalid_role" => ~NotAdmin(last'.caller))]_vars

\* C22 witness: a designer called update_user_role with new_role = "owner"
\* and was told that only admins can update roles.
C22_Witness ==
  /\ last.op = "update_user_role" /\ last.val = Owner
  /\ get_user_role(last.caller) = "designer"
  /\ last.res = "not_admin"

\* C27: a profiles row comes to hold role 'admin' only through
\* update_user_role called by a principal whose stored role was 'admin';
\* never through an INSERT of the principal's own row or a direct UPDATE.
C27_AdminOnlyFromAdmin ==
  [][\A u \in Users :
       (profiles'[u] = "admin" /\ profiles[u] # "admin")
         => (/\ last'.op = "update_user_role"
             /\ RoleIn(profiles, last'.caller) = "admin")]_vars

\* C28: an UPDATE of a task by a principal whose stored role is not 'admin'
\* never changes the row's assigned_to, and when it takes effect the row's
\* assigned_to is that principal's id after it as before: USING is applied
\* to the new row, so a designer can neither reassign nor unassign a task.
C28_DesignerKeepsAssignee ==
  [][(/\ last'.op = "tasks_update"
      /\ last'.id \in DOMAIN tasks
      /\ get_user_role(last'.caller) # "admin")
     => (/\ last'.id \in DOMAIN tasks'
         /\ tasks'[last'.id].assigned_to = tasks[last'.id].assigned_to
         /\ last'.res = "ok" => tasks'[last'.id].assigned_to = last'.caller)]_vars

\* C28 witness: a designer's UPDATE that sets assigned_to of the designer's
\* own task to somebody else was rejected by the policy on the new row.
C28_Witness ==
  /\ last.op = "tasks_update" /\ last.res = "rls_violation"
  /\ get_user_role(last.caller) = "designer"
  /\ last.id \in DOMAIN tasks
  /\ tasks[last.id].assigned_to = last.caller
  /\ last.val.assigned_to \notin {Keep, last.caller}

\* C29: when the upload of the completed artifact fails, handleCompleteTask
\* ends there: no task update and no notification follow, the tasks table
\* and the notifications are as they were, completedFile is still the
\* chosen file and uploading is false again.
C29_FailedUploadStopsCompletion ==
  [][(dpc = "upload" /\ dpc' # "upload" /\ last'.res # "ok")
     => (/\ dpc' = "idle"
         /\ tasks' = tasks
         /\ notifications' = notifications
         /\ completedFile' /\ ~uploading')]_vars

\* C29 witness: the upload of the completed artifact of a task that is
\* in_progress failed and the handler is over.
C29_Witness ==
  /\ last.op = "storage_insert" /\ last.res = "network_error"
  /\ last.id[2][1] = "completed"
  /\ dpc = "idle" /\ dtask.id \in DOMAIN tasks
  /\ tasks[dtask.id].status = "in_progress"

\* C30: the designer's updateTaskStatus calls send_notification only after
\* its update to completed returned without error and the row is completed;
\* when the update returns an error the function ends with no call and no
\* notification; the update to in_progress is followed by no call.
C30_NotifyOnlyAfterCompletedUpdate ==
  [][/\ (dpc # "notify" /\ dpc' = "notify")
          => (/\ dpc = "update"
              /\ last'.op = "tasks_update" /\ last'.res = "ok"
              /\ tasks'[dtask.id].status = "completed")
     /\ (last' # last /\ last'.op = "send_notification" /\ last'.caller = Designer)
          => dpc = "notify"
     /\ (dpc = "update" /\ dpc' # "update" /\ IsError(last'.res))
          => (dpc' = "idle" /\ notifications' = notifications)
     /\ (dpc = "idle" /\ last' # last /\ last'.op = "tasks_update" /\ last'.caller = Designer)
          => (dpc' = "idle" /\ notifications' = notifications)]_vars

\* C30 witness: the designer's update to completed returned an error and the
\* function is over with the task still in_progress.
C30_Witness ==
  /\ last.op = "tasks_update" /\ last.caller = Designer
  /\ last.val.status = "completed" /\ IsError(last.res)
  /\ dpc = "idle" /\ tasks[last.id].status = "in_progress"

\* C23: a handler entered with a required field missing (createTask with a
\* blank title, handleUpload with a blank title or no file, handleCompleteTask
\* with no completed file) makes no backend call: it shows an error toast
\* and leaves the tables, the bucket, the last request sent and the
\* uploading flag as they were.
C23_MissingFieldNoBackendCall ==
  [][(run' # run /\ ~run'.valid)
     => (/\ run'.upload = "none" /\ run'.write = "none" /\ run'.rpc = "none"
         /\ IF run'.handler = "createTask"
            THEN adminToast' = "error" /\ desToast' = desToast
            ELSE desToast' = "error" /\ adminToast' = adminToast
         /\ <<profiles, tasks, notifications, designs, objects>>' =
              <<profiles, tasks, notifications, designs, objects>>
         /\ last' = last
         /\ uploading' = uploading /\ dpc' = dpc)]_vars

\* C23 witness: handleUpload was submitted without a title or a file and
\* ended with an error toast, uploading still false.
C23_Witness ==
  /\ run.handler = "handleUpload" /\ ~run.valid
  /\ desToast = "error" /\ ~uploading

\* C24: whenever a backend call of a user action returns an error (the
\* reference upload, the task insert or the assignment rpc of createTask;
\* the upload or the insert of handleUpload; a status update, the upload of
\* the completed artifact or the completion rpc), the toast shown at the end
\* of that step is an error toast.
C24_FailureShowsErrorToast ==
  [][/\ (/\ run' # run
         /\ Failed(run'.upload) \/ Failed(run'.write) \/ Failed(run'.rpc))
          => IF run'.handler = "createTask"
             THEN adminToast' = "error" ELSE desToast' = "error"
     /\ (run' = run /\ last' # last /\ IsError(last'.res))
          => IF last'.caller = Admin
             THEN adminToast' = "error" ELSE desToast' = "error"]_vars

\* C25: a user action whose backend step fails leaves nothing behind: a run
\* of createTask or handleUpload in which a call returned an error leaves
\* the tasks, the designs, the bucket and the notifications as they were,
\* and when the completion rpc of handleCompleteTask fails the task is not
\* left completed.
C25_NoPartialCommit ==
  [][/\ (/\ run' # run
         /\ Failed(run'.upload) \/ Failed(run'.write) \/ Failed(run'.rpc))
          => <<tasks, designs, objects, notifications>>' =
               <<tasks, designs, objects, notifications>>
     /\ (dpc = "notify" /\ dpc' = "idle" /\ IsError(last'.res))
          => tasks'[dtask.id].status # "completed"]_vars

\* C26: whenever Index renders a dashboard, the user it holds is the one
\* signed in and the dashboard is the one of that user's stored role:
\* AdminDashboard only for stored role 'admin', DesignerDashboard only for
\* stored role 'designer'.
C26_DashboardMatchesStoredRole ==
  /\ Rendered = "AdminDashboard"
       => (session = authUser /\ RoleIn(profiles, session) = "admin")
  /\ Rendered = "DesignerDashboard"
       => (session = authUser /\ RoleIn(profiles, session) = "designer")

====
